---- MODULE Spec2Model ----
(***************************************************************************)
(* Model of nearcore/src/config_validate.rs: validate_config and the       *)
(* ConfigValidator that evaluates five semantic rules over a Config and    *)
(* accumulates every violation in a ValidationErrors collection.           *)
(***************************************************************************)
EXTENDS Naturals, Sequences, FiniteSets, TLC

\* ---------------------------------------------------------------- bounds
\* Durations (min/max block production delay, max block wait delay) range
\* over 0..MaxDelay time units.
MaxDelay == 2
\* header_sync_expected_height_per_second ranges over 0..MaxRate.
MaxRate == 1
\* The three gc limits range over 0..MaxGc.
MaxGc == 1

\* ------------------------------------------------------- Option / Result
None == << >>
Some(x) == << x >>

OptionBool == { None, Some(TRUE), Some(FALSE) }

Ok == [tag |-> "Ok", error |-> None]
Err(e) == [tag |-> "Err", error |-> Some(e)]
\* unwrap() of a None aborts the call instead of returning.
Panic == [tag |-> "Panic", error |-> None]
\* No call has returned yet.
Pending == [tag |-> "Pending", error |-> None]

\* ----------------------------------------------------------- Config
\* The fields of Config that the validator and its tests touch. No rule reads
\* tracked_shards; the tests always push shard 20 before validating.
Config ==
    [ archive : BOOLEAN,
      save_trie_changes : OptionBool,
      consensus : [ min_block_production_delay : 0..MaxDelay,
                    max_block_production_delay : 0..MaxDelay,
                    max_block_wait_delay : 0..MaxDelay,
                    header_sync_expected_height_per_second : 0..MaxRate ],
      gc : [ gc_blocks_limit : 0..MaxGc,
             gc_fork_clean_step : 0..MaxGc,
             gc_num_epochs_to_keep : 0..MaxGc ],
      tracked_shards : { << 20 >> } ]

\* ------------------------------------------------ ValidationErrors
\* ValidationError::ConfigSemanticsError { error_message }
ConfigSemanticsError(m) == [variant |-> "ConfigSemanticsError", error_message |-> m]

\* ValidationErrors::new()
ValidationErrors_new == << >>

\* ValidationErrors::push_config_semantics_error
push_config_semantics_error(errors, error_message) ==
    Append(errors, ConfigSemanticsError(error_message))

\* ValidationErrors::is_empty
is_empty(errors) == Len(errors) = 0

\* ValidationErrors::generate_error_message_per_type: nothing to render for
\* an empty collection; otherwise one line per entry, in insertion order,
\* each tagged with its category.
generate_error_message_per_type(errors) ==
    IF Len(errors) = 0
    THEN None
    ELSE Some([i \in 1..Len(errors) |->
                 [prefix |-> "\nconfig.json semantic issue: ",
                  text |-> errors[i].error_message]])

\* ------------------------------------------------------ format!
\* A formatted message is the format string with its arguments in order.
format(fmt, args) == [fmt |-> fmt, args |-> args]

ArchiveFmt == "Configuration with archive = false and save_trie_changes = false is not supported because non-archival nodes must save trie changes in order to do do garbage collection."
ProductionFmt == "min_block_production_delay: {:?} is greater than max_block_production_delay: {:?}"
WaitFmt == "min_block_production_delay: {:?} is greater than max_block_wait_delay: {:?}"
HeaderSyncFmt == "consensus.header_sync_expected_height_per_second should not be 0"
GcFmt == "gc config values should all be greater than 0, but gc_blocks_limit is {:?}, gc_fork_clean_step is {}, gc_num_epochs_to_keep is {}."

\* ------------------------------------------------------------ state
VARIABLES
    config,             \* the Config the caller passes by shared reference
    validation_errors,  \* the ValidationErrors of the current (or last) call
    pc,                 \* position of the call
    outcome,            \* what the last call returned
    evaluated,          \* history: the rules evaluated by the current call, in order
    rendered,           \* history: Some(accumulator length) when the call rendered
    entry_config,       \* history: the Config as it was when the call began
    prev                \* history: what the previous call reported

vars == << config, validation_errors, pc, outcome, evaluated, rendered,
           entry_config, prev >>

RuleNames == << "archive", "production", "wait", "header_sync", "gc" >>

\* ------------------------------------------------ the five conditions
archive_condition_tristate_collapsed(c) ==
    c.archive = FALSE /\ c.save_trie_changes # Some(TRUE)

archive_condition(c) ==
    c.archive = FALSE /\ c.save_trie_changes = Some(FALSE)

production_condition(c) ==
    c.consensus.min_block_production_delay > c.consensus.max_block_production_delay

wait_condition_nonstrict(c) ==
    c.consensus.min_block_production_delay >= c.consensus.max_block_wait_delay

wait_condition(c) ==
    c.consensus.min_block_production_delay > c.consensus.max_block_wait_delay

header_sync_condition(c) ==
    c.consensus.header_sync_expected_height_per_second = 0

gc_condition_two_fields(c) ==
    \/ c.gc.gc_blocks_limit = 0
    \/ c.gc.gc_fork_clean_step = 0

gc_condition(c) ==
    \/ c.gc.gc_blocks_limit = 0
    \/ c.gc.gc_fork_clean_step = 0
    \/ c.gc.gc_num_epochs_to_keep = 0

\* ------------------------------------------------ the five messages
archive_message(c) == format(ArchiveFmt, << >>)

production_message(c) ==
    format(ProductionFmt, << c.consensus.min_block_production_delay,
                             c.consensus.max_block_production_delay >>)

wait_message(c) ==
    format(WaitFmt, << c.consensus.min_block_production_delay,
                       c.consensus.max_block_wait_delay >>)

header_sync_message(c) == format(HeaderSyncFmt, << >>)

gc_message(c) ==
    format(GcFmt, << c.gc.gc_blocks_limit,
                     c.gc.gc_fork_clean_step,
                     c.gc.gc_num_epochs_to_keep >>)

\* ------------------------------------------------------------ Init
Init ==
    /\ config \in Config
    /\ validation_errors = ValidationErrors_new
    /\ pc = "idle"
    /\ outcome = Pending
    /\ evaluated = << >>
    /\ rendered = None
    /\ entry_config = config
    /\ prev = [changed |-> "first", outcome |-> Pending, others |-> << >>]

\* --------------------------------------------------- validate_config
\* Lines 7-11: a new ValidationErrors and a ConfigValidator borrowing the
\* config; control enters validate / validate_all_conditions.
validate_config_stale_accumulator ==
    /\ pc \in {"idle", "resolved"}
    /\ validation_errors' = validation_errors
    /\ pc' = "archive"
    /\ outcome' = Pending
    /\ evaluated' = << >>
    /\ rendered' = None
    /\ entry_config' = config
    /\ prev' = IF pc = "resolved"
               THEN [changed |-> "none", outcome |-> outcome, others |-> << >>]
               ELSE prev
    /\ UNCHANGED config

validate_config ==
    /\ pc \in {"idle", "resolved"}
    /\ validation_errors' = ValidationErrors_new
    /\ pc' = "archive"
    /\ outcome' = Pending
    /\ evaluated' = << >>
    /\ rendered' = None
    /\ entry_config' = config
    /\ prev' = IF pc = "resolved"
               THEN [changed |-> "none", outcome |-> outcome, others |-> << >>]
               ELSE prev
    /\ UNCHANGED config

\* ------------------------------------------ validate_all_conditions
\* Lines 31-34.
ArchiveRule_normalising ==
    /\ pc = "archive"
    /\ validation_errors' =
         IF archive_condition(config)
         THEN push_config_semantics_error(validation_errors, archive_message(config))
         ELSE validation_errors
    /\ config' = IF archive_condition(config)
                 THEN [config EXCEPT !.save_trie_changes = Some(TRUE)]
                 ELSE config
    /\ evaluated' = Append(evaluated, "archive")
    /\ pc' = "production"
    /\ UNCHANGED << outcome, rendered, entry_config, prev >>

ArchiveRule ==
    /\ pc = "archive"
    /\ validation_errors' =
         IF archive_condition(config)
         THEN push_config_semantics_error(validation_errors, archive_message(config))
         ELSE validation_errors
    /\ evaluated' = Append(evaluated, "archive")
    /\ pc' = "production"
    /\ UNCHANGED << config, outcome, rendered, entry_config, prev >>

\* Lines 36-45.
ProductionRule_short_circuit ==
    /\ pc = "production"
    /\ validation_errors' =
         IF production_condition(config)
         THEN push_config_semantics_error(validation_errors, production_message(config))
         ELSE validation_errors
    /\ evaluated' = Append(evaluated, "production")
    /\ pc' = IF production_condition(config) THEN "result" ELSE "wait"
    /\ UNCHANGED << config, outcome, rendered, entry_config, prev >>

ProductionRule ==
    /\ pc = "production"
    /\ validation_errors' =
         IF production_condition(config)
         THEN push_config_semantics_error(validation_errors, production_message(config))
         ELSE validation_errors
    /\ evaluated' = Append(evaluated, "production")
    /\ pc' = "wait"
    /\ UNCHANGED << config, outcome, rendered, entry_config, prev >>

\* Lines 47-56.
WaitRule_else_if ==
    /\ pc = "wait"
    /\ validation_errors' =
         IF wait_condition(config) /\ ~production_condition(config)
         THEN push_config_semantics_error(validation_errors, wait_message(config))
         ELSE validation_errors
    /\ evaluated' = Append(evaluated, "wait")
    /\ pc' = "header_sync"
    /\ UNCHANGED << config, outcome, rendered, entry_config, prev >>

WaitRule ==
    /\ pc = "wait"
    /\ validation_errors' =
         IF wait_condition(config)
         THEN push_config_semantics_error(validation_errors, wait_message(config))
         ELSE validation_errors
    /\ evaluated' = Append(evaluated, "wait")
    /\ pc' = "header_sync"
    /\ UNCHANGED << config, outcome, rendered, entry_config, prev >>

\* Lines 58-62.
HeaderSyncRule_else_if ==
    /\ pc = "header_sync"
    /\ validation_errors' =
         IF header_sync_condition(config) /\ is_empty(validation_errors)
         THEN push_config_semantics_error(validation_errors, header_sync_message(config))
         ELSE validation_errors
    /\ evaluated' = Append(evaluated, "header_sync")
    /\ pc' = "gc"
    /\ UNCHANGED << config, outcome, rendered, entry_config, prev >>

HeaderSyncRule ==
    /\ pc = "header_sync"
    /\ validation_errors' =
         IF header_sync_condition(config)
         THEN push_config_semantics_error(validation_errors, header_sync_message(config))
         ELSE validation_errors
    /\ evaluated' = Append(evaluated, "header_sync")
    /\ pc' = "gc"
    /\ UNCHANGED << config, outcome, rendered, entry_config, prev >>

\* Lines 64-70.
GcRule_one_per_field ==
    /\ pc = "gc"
    /\ LET violation == ConfigSemanticsError(gc_message(config))
       IN validation_errors' =
            validation_errors
            \o (IF config.gc.gc_blocks_limit = 0 THEN << violation >> ELSE << >>)
            \o (IF config.gc.gc_fork_clean_step = 0 THEN << violation >> ELSE << >>)
            \o (IF config.gc.gc_num_epochs_to_keep = 0 THEN << violation >> ELSE << >>)
    /\ evaluated' = Append(evaluated, "gc")
    /\ pc' = "result"
    /\ UNCHANGED << config, outcome, rendered, entry_config, prev >>

GcRule ==
    /\ pc = "gc"
    /\ validation_errors' =
         IF gc_condition(config)
         THEN push_config_semantics_error(validation_errors, gc_message(config))
         ELSE validation_errors
    /\ evaluated' = Append(evaluated, "gc")
    /\ pc' = "result"
    /\ UNCHANGED << config, outcome, rendered, entry_config, prev >>

\* --------------------------------------------- result_with_full_error
\* Lines 73-80.
result_with_full_error_unguarded ==
    /\ pc = "result"
    /\ rendered' = Some(Len(validation_errors))
    /\ LET full_err_msg == generate_error_message_per_type(validation_errors)
       IN outcome' = IF full_err_msg = None
                     THEN Panic
                     ELSE Err(ConfigSemanticsError(full_err_msg[1]))
    /\ pc' = "resolved"
    /\ UNCHANGED << config, validation_errors, evaluated, entry_config, prev >>

result_with_full_error ==
    /\ pc = "result"
    /\ IF is_empty(validation_errors)
       THEN /\ outcome' = Ok
            /\ rendered' = rendered
       ELSE /\ rendered' = Some(Len(validation_errors))
            /\ LET full_err_msg == generate_error_message_per_type(validation_errors)
               IN outcome' = IF full_err_msg = None
                             THEN Panic
                             ELSE Err(ConfigSemanticsError(full_err_msg[1]))
    /\ pc' = "resolved"
    /\ UNCHANGED << config, validation_errors, evaluated, entry_config, prev >>

\* ------------------------------------------------------- the caller
\* The rule a reported message comes from, read off its format string.
rule_of(message) ==
    CASE message.fmt = ArchiveFmt -> "archive"
      [] message.fmt = ProductionFmt -> "production"
      [] message.fmt = WaitFmt -> "wait"
      [] message.fmt = HeaderSyncFmt -> "header_sync"
      [] message.fmt = GcFmt -> "gc"

\* The message texts of the lines an outcome carries, in order.
outcome_messages(o) ==
    IF o.tag = "Err"
    THEN [i \in 1..Len(o.error[1].error_message) |-> o.error[1].error_message[i].text]
    ELSE << >>

\* The configurations that differ from c in exactly one field, that field
\* being read by rule r and by no other rule.
edits(c, r) ==
    CASE r = "archive" ->
           { [c EXCEPT !.archive = ~@] }
           \cup { [c EXCEPT !.save_trie_changes = v] :
                    v \in OptionBool \ { c.save_trie_changes } }
      [] r = "production" ->
           { [c EXCEPT !.consensus.max_block_production_delay = v] :
               v \in (0..MaxDelay) \ { c.consensus.max_block_production_delay } }
      [] r = "wait" ->
           { [c EXCEPT !.consensus.max_block_wait_delay = v] :
               v \in (0..MaxDelay) \ { c.consensus.max_block_wait_delay } }
      [] r = "header_sync" ->
           { [c EXCEPT !.consensus.header_sync_expected_height_per_second = v] :
               v \in (0..MaxRate) \ { c.consensus.header_sync_expected_height_per_second } }
      [] r = "gc" ->
           { [c EXCEPT !.gc.gc_blocks_limit = v] :
               v \in (0..MaxGc) \ { c.gc.gc_blocks_limit } }
           \cup { [c EXCEPT !.gc.gc_fork_clean_step = v] :
                    v \in (0..MaxGc) \ { c.gc.gc_fork_clean_step } }
           \cup { [c EXCEPT !.gc.gc_num_epochs_to_keep = v] :
                    v \in (0..MaxGc) \ { c.gc.gc_num_epochs_to_keep } }

\* Between two calls the caller sets one field of the config (as the tests do
\* before validating); the messages the last call reported for the other
\* rules are kept for comparison.
Toggle ==
    /\ pc = "resolved"
    /\ \E r \in { RuleNames[i] : i \in 1..Len(RuleNames) } :
         /\ \E c \in edits(config, r) : config' = c
         /\ prev' = [changed |-> r,
                     outcome |-> Pending,
                     others |-> SelectSeq(outcome_messages(outcome),
                                          LAMBDA m : rule_of(m) # r)]
    /\ pc' = "idle"
    /\ UNCHANGED << validation_errors, outcome, evaluated, rendered, entry_config >>

\* ------------------------------------------------------------ Spec
Step ==
    \/ ArchiveRule
    \/ ProductionRule
    \/ WaitRule
    \/ HeaderSyncRule
    \/ GcRule
    \/ result_with_full_error

Next ==
    \/ validate_config
    \/ Step

Spec == Init /\ [][Next]_vars

NextToggle ==
    \/ validate_config
    \/ Step
    \/ Toggle

\* Calls interleaved with single-field edits by the caller.
ToggleSpec == Init /\ [][NextToggle]_vars

\* The call is synchronous straight-line code: once entered, every step runs.
LiveSpec == Init /\ [][Next]_vars /\ WF_vars(Step)

\* ================================================================ claims
\* The trigger of each rule as the specification's table states it.
ArchivalTriggers(c) == ~c.archive /\ c.save_trie_changes = << FALSE >>
ProductionTriggers(c) ==
    c.consensus.min_block_production_delay > c.consensus.max_block_production_delay
WaitTriggers(c) ==
    c.consensus.min_block_production_delay > c.consensus.max_block_wait_delay
HeaderSyncTriggers(c) == c.consensus.header_sync_expected_height_per_second = 0
GcZeroFields(c) ==
    { i \in 1..3 : << c.gc.gc_blocks_limit, c.gc.gc_fork_clean_step,
                      c.gc.gc_num_epochs_to_keep >>[i] = 0 }
GcTriggers(c) == GcZeroFields(c) # {}

AnyTriggers(c) ==
    \/ ArchivalTriggers(c)
    \/ ProductionTriggers(c)
    \/ WaitTriggers(c)
    \/ HeaderSyncTriggers(c)
    \/ GcTriggers(c)

\* The triggered rules in the fixed evaluation order.
ExpectedRules(c) ==
    (IF ArchivalTriggers(c) THEN << "archive" >> ELSE << >>)
    \o (IF ProductionTriggers(c) THEN << "production" >> ELSE << >>)
    \o (IF WaitTriggers(c) THEN << "wait" >> ELSE << >>)
    \o (IF HeaderSyncTriggers(c) THEN << "header_sync" >> ELSE << >>)
    \o (IF GcTriggers(c) THEN << "gc" >> ELSE << >>)

\* The messages held by the accumulator, and the rules they come from.
AccumulatedMessages == [i \in 1..Len(validation_errors) |-> validation_errors[i].error_message]
AccumulatedRules == [i \in 1..Len(validation_errors) |-> rule_of(validation_errors[i].error_message)]
ReportedMessages == outcome_messages(outcome)
ReportedRules == [i \in 1..Len(ReportedMessages) |-> rule_of(ReportedMessages[i])]
MessagesOf(r) == SelectSeq(ReportedMessages, LAMBDA m : rule_of(m) = r)

Resolved == pc = "resolved"

\* C1: a call returns Ok(()) exactly when none of the five rules triggers,
\* and otherwise the single ConfigSemanticsError failure; the accumulator is
\* empty at the end of the call exactly when the configuration is valid.
C1_ValidIffOk ==
    Resolved =>
        /\ (outcome = Ok) <=> ~AnyTriggers(config)
        /\ AnyTriggers(config) =>
              /\ outcome.tag = "Err"
              /\ outcome.error[1].variant = "ConfigSemanticsError"
        /\ (validation_errors = << >>) <=> ~AnyTriggers(config)

C1_Witness ==
    /\ Resolved
    /\ outcome.tag = "Err"
    /\ GcZeroFields(config) = {3}
    /\ ExpectedRules(config) = << "gc" >>

\* C2: when exactly k rules trigger, the accumulator and the aggregated
\* message hold exactly k entries, one per triggered rule, none missing or
\* duplicated, in the fixed order archival, production, wait, header-sync,
\* gc; archive=false, save_trie_changes=Some(false), gc_blocks_limit=0 alone
\* yields exactly the archival entry followed by the gc entry.
C2_Completeness ==
    Resolved =>
        /\ AccumulatedRules = ExpectedRules(config)
        /\ ReportedRules = ExpectedRules(config)
        /\ ( /\ ArchivalTriggers(config)
             /\ config.gc.gc_blocks_limit = 0
             /\ ~ProductionTriggers(config)
             /\ ~WaitTriggers(config)
             /\ ~HeaderSyncTriggers(config) )
           => ReportedRules = << "archive", "gc" >>

C2_Witness ==
    /\ Resolved
    /\ ReportedRules = << "production", "wait", "gc" >>

\* C3: a call repeated on the unchanged configuration returns the same
\* outcome with the same message content as the call before it.
C3_Idempotent ==
    (Resolved /\ prev.changed = "none") => outcome = prev.outcome

C3_Witness ==
    /\ Resolved
    /\ prev.changed = "none"
    /\ outcome.tag = "Err"
    /\ Len(ReportedMessages) = 2

\* C4: when the caller changes one field read by a single rule R, every
\* other rule reports the same message (or none) as before, in the same
\* relative order.
C4_Independence ==
    (Resolved /\ prev.changed \notin {"first", "none"}) =>
        SelectSeq(ReportedMessages, LAMBDA m : rule_of(m) # prev.changed) = prev.others

C4_Witness ==
    /\ Resolved
    /\ prev.changed = "archive"
    /\ Len(prev.others) = 2
    /\ ReportedRules = << "archive", "header_sync", "gc" >>

\* C5: a call never panics: it returns Ok or Err, and the accumulator is
\* rendered (and the rendering unwrapped) only when it holds at least one
\* violation.
C5_NoPanic ==
    /\ outcome.tag # "Panic"
    /\ Resolved => outcome.tag \in {"Ok", "Err"}
    /\ rendered # None => rendered[1] >= 1

C5_Witness ==
    /\ Resolved
    /\ rendered = << 1 >>
    /\ outcome.tag = "Err"

\* C6: during and after a call every field of the configuration has the
\* value it had when the call began, whatever the outcome.
C6_ConfigUnchanged ==
    pc # "idle" => config = entry_config

C6_Witness ==
    /\ Resolved
    /\ outcome.tag = "Err"
    /\ ArchivalTriggers(config)
    /\ prev.changed = "archive"

\* C7: the archival rule reports exactly when archive is false and
\* save_trie_changes is Some(false), not when it is None or Some(true) and
\* not when archive is true; with every other rule silent that configuration
\* fails with the archival message alone.
C7_ArchivalTriState ==
    Resolved =>
        /\ (Len(MessagesOf("archive")) = 1)
              <=> (config.archive = FALSE /\ config.save_trie_changes = << FALSE >>)
        /\ Len(MessagesOf("archive")) <= 1
        /\ (config.archive = FALSE /\ config.save_trie_changes \in { << >>, << TRUE >> })
              => MessagesOf("archive") = << >>
        /\ config.archive = TRUE => MessagesOf("archive") = << >>
        /\ ( /\ config.archive = FALSE
             /\ config.save_trie_changes = << FALSE >>
             /\ ~ProductionTriggers(config)
             /\ ~WaitTriggers(config)
             /\ ~HeaderSyncTriggers(config)
             /\ ~GcTriggers(config) )
           => /\ outcome.tag = "Err"
              /\ ReportedMessages = << [fmt |-> ArchiveFmt, args |-> << >>] >>

C7_Witness ==
    /\ Resolved
    /\ config.archive = FALSE
    /\ config.save_trie_changes = << >>
    /\ outcome = Ok

\* C8: the production and the wait rule are separate strict comparisons of
\* min_block_production_delay; equality triggers neither; min above the wait
\* bound but below the production bound reports the wait violation only; min
\* above both reports both, production first; each carries both values.
C8_BlockTiming ==
    Resolved =>
        LET min == config.consensus.min_block_production_delay
            maxp == config.consensus.max_block_production_delay
            maxw == config.consensus.max_block_wait_delay
        IN /\ MessagesOf("production") =
                 IF min > maxp
                 THEN << [fmt |-> ProductionFmt, args |-> << min, maxp >>] >>
                 ELSE << >>
           /\ MessagesOf("wait") =
                 IF min > maxw
                 THEN << [fmt |-> WaitFmt, args |-> << min, maxw >>] >>
                 ELSE << >>
           /\ (min > maxw /\ min < maxp) =>
                 SelectSeq(ReportedRules, LAMBDA r : r \in {"production", "wait"})
                    = << "wait" >>
           /\ (min > maxw /\ min > maxp) =>
                 SelectSeq(ReportedRules, LAMBDA r : r \in {"production", "wait"})
                    = << "production", "wait" >>

C8_Witness ==
    /\ Resolved
    /\ config.consensus.min_block_production_delay > config.consensus.max_block_wait_delay
    /\ config.consensus.min_block_production_delay < config.consensus.max_block_production_delay
    /\ ReportedRules = << "wait" >>

\* C9: the gc rule reports exactly one violation when at least one of the
\* three gc limits is zero, whichever subset is zero, and none when all are
\* positive; the violation carries the three values, from which the zero
\* fields are read off; gc_blocks_limit=0 alone fails with that message only.
C9_GcOneViolation ==
    Resolved =>
        LET gcm == MessagesOf("gc")
            values == << config.gc.gc_blocks_limit, config.gc.gc_fork_clean_step,
                         config.gc.gc_num_epochs_to_keep >>
        IN /\ Len(gcm) = IF \E i \in 1..3 : values[i] = 0 THEN 1 ELSE 0
           /\ Len(gcm) = 1 =>
                 /\ gcm[1] = [fmt |-> GcFmt, args |-> values]
                 /\ { i \in 1..3 : gcm[1].args[i] = 0 } = GcZeroFields(config)
           /\ ( /\ config.gc.gc_blocks_limit = 0
                /\ ~ArchivalTriggers(config)
                /\ ~ProductionTriggers(config)
                /\ ~WaitTriggers(config)
                /\ ~HeaderSyncTriggers(config) )
              => /\ outcome.tag = "Err"
                 /\ ReportedMessages = << [fmt |-> GcFmt, args |-> values] >>

C9_Witness ==
    /\ Resolved
    /\ GcZeroFields(config) = {1, 3}
    /\ Len(MessagesOf("gc")) = 1

\* C10: every call evaluates the five rules exactly once each, in order,
\* whatever earlier rules found; it resolves only after the fifth rule, it
\* always resolves, and while it runs the accumulator never shrinks and
\* never holds more than five violations.
Accumulating == pc \notin {"idle", "resolved"}
Position ==
    CASE pc = "archive" -> 0
      [] pc = "production" -> 1
      [] pc = "wait" -> 2
      [] pc = "header_sync" -> 3
      [] pc = "gc" -> 4
      [] OTHER -> 5

C10_SinglePass ==
    /\ [](pc # "idle" => evaluated = SubSeq(RuleNames, 1, Position))
    /\ [](Len(validation_errors) <= Len(RuleNames))
    /\ [][Accumulating => Len(validation_errors') >= Len(validation_errors)]_vars
    /\ [][pc' = "resolved" => (pc = "result" /\ evaluated = RuleNames)]_vars
    /\ (Accumulating ~> Resolved)

C10_Witness ==
    /\ Resolved
    /\ evaluated = RuleNames
    /\ Len(validation_errors) = 5

====
